---- MODULE Spec2Model ----
(***************************************************************************)
(* pleme-config-manager: the synchronous accessor (class Config) and the   *)
(* asynchronous loader (class ConfigLoader), both reading the global slot  *)
(* window[configKey].                                                      *)
(*                                                                         *)
(* The environment is the ambient global object (hasWindow: does `window`  *)
(* exist at all), the slot window[configKey], and the clock Date.now().    *)
(* One ConfigLoader instance is modelled with its two fields, the promises *)
(* it has created (one per poll cycle, with the closure's startTime and    *)
(* the timer the cycle has scheduled) and the get/getAll calls issued.     *)
(***************************************************************************)
EXTENDS Integers, Sequences, FiniteSets, TLC

\* ---------------------------------------------------------------- bounds
MaxTime == 2      \* the clock Date.now() runs over 0..MaxTime
MaxCalls == 2     \* get/getAll calls issued on the loader in one behaviour
MaxReloads == 1   \* reload() calls in one behaviour

\* ---------------------------------------------------------------- values
\* JavaScript `undefined` as the value of a key (also: the key is absent).
Undefined == "<undefined>"

\* JavaScript null/undefined where an object is expected: this.config = null,
\* window[configKey] not set.
Null == [null |-> TRUE]

\* The keys that callers ask for.
Keys == {"K"}

\* string | undefined: what a ConfigRecord holds under a key. The loader is
\* run over records with an empty and a non-empty value, the synchronous
\* accessor over all of AllValues.
LoaderValues == {"", "v"}
AllValues == {Undefined, "", "true", "false", "1", "https://x"}

\* ConfigRecord = Record<string, string | undefined>
LoaderRecords == [Keys -> LoaderValues]
AllRecords == [Keys -> AllValues]

\* JavaScript truthiness of a string | undefined value.
Truthy(v) == v # Undefined /\ v # ""

\* JavaScript truthiness of what the slot holds (an object is truthy).
SlotTruthy(s) == s # Null

\* ---------------------------------------------------------------- errors
\* The Error messages the code throws, and the error kinds they stand for.
ErrNonBrowser == "Cannot access window.ENV in non-browser environment"
ErrNotDefined == "window.ENV is not defined"
ErrRequiredMissingOrEmpty == "Required configuration is missing or empty"
ErrRequiredMissing == "Required configuration is missing"
ErrFailedToLoad == "Configuration failed to load after maxWaitMs"
ErrReference == "ReferenceError: window is not defined"
NoError == "<none>"

ConfigSourceUnavailable == {ErrNonBrowser, ErrNotDefined}
MissingRequiredKey == {ErrRequiredMissingOrEmpty, ErrRequiredMissing}
ConfigLoadTimeout == {ErrFailedToLoad}

\* The options a ConfigLoader is constructed with.
MaxWaitChoices == {0, 2}
PollIntervalChoices == {1}

\* The options (GetConfigOptions) callers pass to ConfigLoader.get.
GetOptions == {[required |-> FALSE, defaultValue |-> "dflt"],
               [required |-> TRUE, defaultValue |-> Undefined]}

NoTimer == -1

VARIABLES
    hasWindow,       \* typeof window !== 'undefined'
    slot,            \* window[configKey]: Null or a ConfigRecord
    now,             \* Date.now()
    maxWaitMs,       \* this.maxWaitMs
    pollIntervalMs,  \* this.pollIntervalMs
    config,          \* this.config: Null or the cached ConfigRecord
    loadingPromise,  \* this.loadingPromise: 0 (null) or the index of a promise
    cycles,          \* the promises created by loadConfig, one per poll cycle
    calls,           \* the get/getAll calls issued so far
    reloads,         \* history: number of reload() calls so far
    result           \* outcome of the last call on the synchronous accessor

vars == <<hasWindow, slot, now, maxWaitMs, pollIntervalMs, config,
          loadingPromise, cycles, calls, reloads, result>>

envVars == <<hasWindow, slot, now>>
optVars == <<maxWaitMs, pollIntervalMs>>
loaderVars == <<config, loadingPromise, cycles, calls, reloads>>

\* No synchronous call has been made yet. prevOp and prevSlot are the call
\* before the last one and the slot it ran on.
NoResult == [op |-> "none", key |-> "K", args |-> <<>>, window |-> TRUE,
             slot |-> Null, threw |-> FALSE, error |-> NoError,
             str |-> Undefined, bool |-> FALSE, rec |-> Null,
             prevOp |-> "none", prevSlot |-> Null]

\* ------------------------------------------------- ConfigLoader.loadConfig

\* checkConfig testing the deadline before the slot.
CheckConfigDeadlineFirst(startTime) ==
    IF ~hasWindow THEN "throw"
    ELSE IF now - startTime >= maxWaitMs THEN "timeout"
    ELSE IF SlotTruthy(slot) THEN "resolve"
    ELSE "schedule"

\* One run of checkConfig, for a cycle whose closure holds startTime:
\*   "throw"    window does not exist: evaluating `window` throws
\*   "resolve"  the slot is truthy
\*   "timeout"  elapsed >= maxWaitMs
\*   "schedule" setTimeout(checkConfig, pollIntervalMs)
CheckConfig(startTime) ==
    IF ~hasWindow THEN "throw"
    ELSE IF SlotTruthy(slot) THEN "resolve"
    ELSE IF now - startTime >= maxWaitMs THEN "timeout"
    ELSE "schedule"

\* loadConfig without its second test: every call that finds no cache starts
\* a promise of its own.
LoadPathNoCoalescing ==
    IF config # Null THEN "cached" ELSE "start"

\* Which of its three paths loadConfig takes.
LoadPath ==
    IF config # Null THEN "cached"
    ELSE IF loadingPromise # 0 THEN "attach"
    ELSE "start"

\* A variant of the tail of get whose required check accepts the empty string.
GetResultUndefinedOnly(cfg, key, required, defaultValue) ==
    LET value == cfg[key] IN
    IF required /\ value = Undefined
    THEN [threw |-> TRUE, error |-> ErrRequiredMissing, value |-> Undefined]
    ELSE [threw |-> FALSE, error |-> NoError,
          value |-> IF value # Undefined THEN value ELSE defaultValue]

\* The tail of ConfigLoader.get once the load has produced cfg:
\* [threw, error, value].
GetResult(cfg, key, required, defaultValue) ==
    LET value == cfg[key] IN
    IF required /\ (value = Undefined \/ value = "")
    THEN [threw |-> TRUE, error |-> ErrRequiredMissing, value |-> Undefined]
    ELSE [threw |-> FALSE, error |-> NoError,
          value |-> IF value # Undefined THEN value ELSE defaultValue]

\* A call whose awaited load fulfilled with cfg.
Fulfil(call, cfg) ==
    IF call.op = "getAll"
    THEN [call EXCEPT !.status = "fulfilled", !.rec = cfg]
    ELSE LET r == GetResult(cfg, call.key, call.required, call.defaultValue) IN
         IF r.threw
         THEN [call EXCEPT !.status = "rejected", !.error = r.error, !.rec = cfg]
         ELSE [call EXCEPT !.status = "fulfilled", !.value = r.value, !.rec = cfg]

\* A call whose awaited load rejected with err.
Reject(call, err) == [call EXCEPT !.status = "rejected", !.error = err]

\* A call that awaits promise p, given the state of that promise.
Await(call, p, cycle) ==
    LET c == [call EXCEPT !.promise = p] IN
    IF cycle.state = "fulfilled" THEN Fulfil(c, cycle.value)
    ELSE IF cycle.state = "rejected" THEN Reject(c, cycle.error)
    ELSE c

\* Every call waiting on promise p sees it settle as `cycle` says.
Settle(cs, p, cycle) ==
    [i \in DOMAIN cs |->
        IF cs[i].promise = p /\ cs[i].status = "pending"
        THEN Await(cs[i], p, cycle) ELSE cs[i]]

\* The promise of a new poll cycle after the executor has run checkConfig once.
\* startTime is the closure's variable and timer the check the cycle has
\* scheduled; settledAt (when the promise settled), abandoned (reload() was
\* called while the cycle polled) and slotSeen (the slot was truthy at some
\* moment of the cycle) are history.
NewCycle ==
    LET out == CheckConfig(now) IN
    [startTime |-> now,
     state |-> CASE out = "resolve" -> "fulfilled"
                 [] out \in {"timeout", "throw"} -> "rejected"
                 [] OTHER -> "pending",
     value |-> IF out = "resolve" THEN slot ELSE Null,
     error |-> CASE out = "timeout" -> ErrFailedToLoad
                 [] out = "throw" -> ErrReference
                 [] OTHER -> NoError,
     timer |-> IF out = "schedule" THEN now + pollIntervalMs ELSE NoTimer,
     settledAt |-> IF out = "schedule" THEN NoTimer ELSE now,
     abandoned |-> FALSE,
     slotSeen |-> SlotTruthy(slot)]

\* loadConfig, called by `call`: the three paths. On "start" the executor runs
\* checkConfig synchronously, and only then is this.loadingPromise assigned.
LoadConfig(call) ==
    CASE LoadPath = "cached" ->
            /\ calls' = Append(calls, Fulfil(call, config))
            /\ UNCHANGED <<config, loadingPromise, cycles>>
      [] LoadPath = "attach" ->
            /\ calls' = Append(calls,
                               Await(call, loadingPromise, cycles[loadingPromise]))
            /\ UNCHANGED <<config, loadingPromise, cycles>>
      [] LoadPath = "start" ->
            LET p == Len(cycles) + 1
                cycle == NewCycle
            IN /\ cycles' = Append(cycles, cycle)
               /\ config' = IF cycle.state = "fulfilled" THEN cycle.value
                            ELSE config
               /\ loadingPromise' = p
               /\ calls' = Append(calls, Await(call, p, cycle))

NewCall(op, key, required, defaultValue) ==
    [op |-> op, key |-> key, required |-> required,
     defaultValue |-> defaultValue, epoch |-> reloads, promise |-> 0,
     status |-> "pending", value |-> Undefined, rec |-> Null,
     error |-> NoError]

\* ConfigLoader.get(key, options)
Get(key, required, defaultValue) ==
    /\ Len(calls) < MaxCalls
    /\ LoadConfig(NewCall("get", key, required, defaultValue))
    /\ UNCHANGED <<envVars, optVars, reloads, result>>

\* ConfigLoader.getAll()
GetAll ==
    /\ Len(calls) < MaxCalls
    /\ LoadConfig(NewCall("getAll", "K", FALSE, Undefined))
    /\ UNCHANGED <<envVars, optVars, reloads, result>>

\* The timer a poll cycle scheduled fires: checkConfig runs again.
TimerFires(p) ==
    /\ cycles[p].timer # NoTimer
    /\ now >= cycles[p].timer
    /\ LET out == CheckConfig(cycles[p].startTime)
           cycle ==
             CASE out = "resolve" ->
                    [cycles[p] EXCEPT !.state = "fulfilled", !.value = slot,
                                      !.timer = NoTimer, !.settledAt = now]
               [] out = "timeout" ->
                    [cycles[p] EXCEPT !.state = "rejected",
                                      !.error = ErrFailedToLoad,
                                      !.timer = NoTimer, !.settledAt = now]
               [] out = "throw" ->
                    [cycles[p] EXCEPT !.timer = NoTimer]
               [] OTHER ->
                    [cycles[p] EXCEPT !.timer = now + pollIntervalMs]
       IN /\ cycles' = [cycles EXCEPT ![p] = cycle]
          /\ config' = IF out = "resolve" THEN slot ELSE config
          /\ loadingPromise' = IF out \in {"resolve", "timeout"} THEN 0
                               ELSE loadingPromise
          /\ calls' = Settle(calls, p, cycle)
    /\ UNCHANGED <<envVars, optVars, reloads, result>>

\* reload() that also cancels the checks already scheduled (clearTimeout).
ReloadCancelsTimers ==
    /\ reloads < MaxReloads
    /\ config' = Null
    /\ loadingPromise' = 0
    /\ cycles' = [p \in DOMAIN cycles |->
                    IF cycles[p].state = "pending" /\ cycles[p].timer # NoTimer
                    THEN [cycles[p] EXCEPT !.abandoned = TRUE,
                                           !.timer = NoTimer]
                    ELSE cycles[p]]
    /\ reloads' = reloads + 1
    /\ UNCHANGED <<envVars, optVars, calls, result>>

\* ConfigLoader.reload()
Reload ==
    /\ reloads < MaxReloads
    /\ config' = Null
    /\ loadingPromise' = 0
    /\ cycles' = [p \in DOMAIN cycles |->
                    IF cycles[p].state = "pending" /\ cycles[p].timer # NoTimer
                    THEN [cycles[p] EXCEPT !.abandoned = TRUE]
                    ELSE cycles[p]]
    /\ reloads' = reloads + 1
    /\ UNCHANGED <<envVars, optVars, calls, result>>

\* isLoaded answering true as soon as a load is in flight.
isLoadedOrLoading == config # Null \/ loadingPromise # 0

\* ConfigLoader.isLoaded()
isLoaded == config # Null

\* A call of isLoaded(): result records its answer.
IsLoaded ==
    /\ result' = [NoResult EXCEPT !.op = "isLoaded", !.bool = isLoaded]
    /\ UNCHANGED <<envVars, optVars, loaderVars>>

\* ------------------------------------------------------------- Config

\* What a method of Config does: it throws err, or it returns a string |
\* undefined (str), a boolean (bool) or a ConfigRecord (rec).
Throw(err) == [threw |-> TRUE, error |-> err, str |-> Undefined,
               bool |-> FALSE, rec |-> Null]
ReturnStr(v) == [threw |-> FALSE, error |-> NoError, str |-> v,
                 bool |-> FALSE, rec |-> Null]
ReturnBool(b) == [threw |-> FALSE, error |-> NoError, str |-> Undefined,
                  bool |-> b, rec |-> Null]
ReturnRec(r) == [threw |-> FALSE, error |-> NoError, str |-> Undefined,
                 bool |-> FALSE, rec |-> r]

\* getEnv keeping the record an earlier getAll returned instead of reading
\* the slot again.
getEnvCached ==
    IF ~hasWindow THEN Throw(ErrNonBrowser)
    ELSE IF result.rec # Null THEN ReturnRec(result.rec)
    ELSE IF ~SlotTruthy(slot) THEN Throw(ErrNotDefined)
    ELSE ReturnRec(slot)

\* Config.getEnv()
getEnv ==
    IF ~hasWindow THEN Throw(ErrNonBrowser)
    ELSE IF ~SlotTruthy(slot) THEN Throw(ErrNotDefined)
    ELSE ReturnRec(slot)

\* getRequired testing only for undefined: an empty string is returned.
getRequiredUndefinedOnly(key) ==
    LET env == getEnv IN
    IF env.threw THEN env
    ELSE LET value == env.rec[key] IN
         IF value = Undefined
         THEN Throw(ErrRequiredMissingOrEmpty)
         ELSE ReturnStr(value)

\* Config.getRequired(key)
getRequired(key) ==
    LET env == getEnv IN
    IF env.threw THEN env
    ELSE LET value == env.rec[key] IN
         IF ~Truthy(value) \/ value = ""
         THEN Throw(ErrRequiredMissingOrEmpty)
         ELSE ReturnStr(value)

\* getOptional without `|| undefined`: an empty string is returned as it is.
getOptionalRaw(key) ==
    LET env == getEnv IN
    IF env.threw THEN env ELSE ReturnStr(env.rec[key])

\* Config.getOptional(key)
getOptional(key) ==
    LET env == getEnv IN
    IF env.threw THEN env
    ELSE LET value == env.rec[key] IN
         ReturnStr(IF Truthy(value) THEN value ELSE Undefined)

\* getBoolean testing the value for truthiness instead of === 'true'.
getBooleanTruthy(key, args) ==
    LET defaultValue == IF args = <<>> THEN FALSE ELSE args[1]
        value == getOptional(key)
    IN IF value.threw THEN value
       ELSE ReturnBool(Truthy(value.str) \/ defaultValue)

\* Config.getBoolean(key, defaultValue = false); args is <<>> when the caller
\* omits defaultValue and <<b>> when the caller passes b.
getBoolean(key, args) ==
    LET defaultValue == IF args = <<>> THEN FALSE ELSE args[1]
        value == getOptional(key)
    IN IF value.threw THEN value
       ELSE ReturnBool(value.str = "true" \/ defaultValue)

\* Config.getAll()
getAll == getEnv

\* isAvailable testing only that window exists.
isAvailableWindowOnly == ReturnBool(hasWindow)

\* Config.isAvailable()
isAvailable == ReturnBool(hasWindow /\ SlotTruthy(slot))

\* A call on the synchronous accessor: result records the call, the
\* environment it ran in and its outcome.
Called(op, key, args, out) ==
    /\ result' = [op |-> op, key |-> key, args |-> args, window |-> hasWindow,
                  slot |-> slot, threw |-> out.threw, error |-> out.error,
                  str |-> out.str, bool |-> out.bool, rec |-> out.rec,
                  prevOp |-> result.op, prevSlot |-> result.slot]
    /\ UNCHANGED <<envVars, optVars, loaderVars>>

CallGetRequired(key) == Called("getRequired", key, <<>>, getRequired(key))
CallGetOptional(key) == Called("getOptional", key, <<>>, getOptional(key))
CallGetBoolean(key, args) ==
    Called("getBoolean", key, args, getBoolean(key, args))
CallGetAll == Called("getAll", "K", <<>>, getAll)
CallIsAvailable == Called("isAvailable", "K", <<>>, isAvailable)

\* The arguments a caller passes for defaultValue.
BooleanArgs == {<<>>, <<FALSE>>, <<TRUE>>}

\* ---------------------------------------------------------- environment

\* The external agent writes, replaces or removes window[configKey].
SetSlot(s) ==
    /\ hasWindow
    /\ s # slot
    /\ slot' = s
    /\ cycles' = [p \in DOMAIN cycles |->
                    IF cycles[p].state = "pending" /\ SlotTruthy(s)
                    THEN [cycles[p] EXCEPT !.slotSeen = TRUE]
                    ELSE cycles[p]]
    /\ UNCHANGED <<hasWindow, now, optVars, config, loadingPromise, calls,
                   reloads, result>>

\* Time passes.
Tick ==
    /\ now < MaxTime
    /\ now' = now + 1
    /\ UNCHANGED <<hasWindow, slot, optVars, loaderVars, result>>

\* ------------------------------------------------------- specification

Init ==
    /\ hasWindow \in BOOLEAN
    /\ slot \in IF hasWindow THEN LoaderRecords \cup {Null} ELSE {Null}
    /\ now = 0
    /\ maxWaitMs \in MaxWaitChoices
    /\ pollIntervalMs \in PollIntervalChoices
    /\ config = Null
    /\ loadingPromise = 0
    /\ cycles = <<>>
    /\ calls = <<>>
    /\ reloads = 0
    /\ result = NoResult

Next ==
    \/ \E k \in Keys, o \in GetOptions : Get(k, o.required, o.defaultValue)
    \/ GetAll
    \/ \E p \in DOMAIN cycles : TimerFires(p)
    \/ Reload
    \/ \E s \in LoaderRecords \cup {Null} : SetSlot(s)
    \/ Tick

Spec == Init /\ [][Next]_vars

\* The loader's load machine alone: callers use getAll (get differs only in
\* what it does with the loaded record) and query isLoaded.
NextLoad ==
    \/ GetAll
    \/ \E p \in DOMAIN cycles : TimerFires(p)
    \/ Reload
    \/ \E s \in LoaderRecords \cup {Null} : SetSlot(s)
    \/ Tick
    \/ IsLoaded

SpecLoad == Init /\ [][NextLoad]_vars

\* The poll loop under its scheduling: callers use getAll, the event loop
\* runs every timer that is due, and time advances.
NextPoll ==
    \/ GetAll
    \/ \E p \in DOMAIN cycles : TimerFires(p)
    \/ Reload
    \/ \E s \in LoaderRecords \cup {Null} : SetSlot(s)
    \/ Tick

FairPoll ==
    /\ Init
    /\ [][NextPoll]_vars
    /\ WF_vars(Tick)
    /\ \A p \in 1..MaxCalls : WF_vars(p \in DOMAIN cycles /\ TimerFires(p))

\* The synchronous accessor alone, over every ConfigRecord.
InitConfig ==
    /\ hasWindow \in BOOLEAN
    /\ slot \in IF hasWindow THEN AllRecords \cup {Null} ELSE {Null}
    /\ now = 0
    /\ maxWaitMs \in MaxWaitChoices
    /\ pollIntervalMs \in PollIntervalChoices
    /\ config = Null
    /\ loadingPromise = 0
    /\ cycles = <<>>
    /\ calls = <<>>
    /\ reloads = 0
    /\ result = NoResult

NextConfig ==
    \/ \E k \in Keys : CallGetRequired(k)
    \/ \E k \in Keys : CallGetOptional(k)
    \/ \E k \in Keys, a \in BooleanArgs : CallGetBoolean(k, a)
    \/ CallGetAll
    \/ CallIsAvailable
    \/ \E s \in AllRecords \cup {Null} : SetSlot(s)

SpecConfig == InitConfig /\ [][NextConfig]_vars

\* Both components reading one record: the page installs the record once
\* (before or during the wait) and never replaces it; required keys are
\* read through ConfigLoader.get and through Config.getRequired.
InitAgree ==
    /\ hasWindow = TRUE
    /\ slot \in AllRecords \cup {Null}
    /\ now = 0
    /\ maxWaitMs \in MaxWaitChoices
    /\ pollIntervalMs \in PollIntervalChoices
    /\ config = Null
    /\ loadingPromise = 0
    /\ cycles = <<>>
    /\ calls = <<>>
    /\ reloads = 0
    /\ result = NoResult

\* The deployment script assigns window[configKey] once.
Install(s) ==
    /\ slot = Null
    /\ SetSlot(s)

NextAgree ==
    \/ \E k \in Keys : Get(k, TRUE, Undefined)
    \/ \E k \in Keys : CallGetRequired(k)
    \/ \E p \in DOMAIN cycles : TimerFires(p)
    \/ \E s \in AllRecords : Install(s)
    \/ Tick

SpecAgree == InitAgree /\ [][NextAgree]_vars

\* ================================================================ claims

\* No poll cycle has ended in a rejection (a timeout, or `window` missing).
NoFailedCycle == \A p \in DOMAIN cycles : cycles[p].state # "rejected"

\* C1 (coalescing). With no reload() and no poll cycle ended in a failure,
\* however many get/getAll calls were issued there is at most one poll cycle:
\* while it is pending every call issued waits on its promise, and once it
\* has seen the slot every call has received the one loaded ConfigRecord,
\* which is the cache.
C1_Coalescing ==
    (reloads = 0 /\ NoFailedCycle) =>
        /\ Len(cycles) <= 1
        /\ calls # <<>> => Len(cycles) = 1
        /\ \A i \in DOMAIN calls :
              /\ calls[i].promise \in {0, 1}
              /\ cycles[1].state = "pending" =>
                    calls[i].status = "pending" /\ calls[i].promise = 1
              /\ cycles[1].state = "fulfilled" =>
                    /\ calls[i].status # "pending"
                    /\ calls[i].rec = cycles[1].value
                    /\ calls[i].rec = config

\* C1 witness: two calls waited on one poll cycle that polled at least once
\* and both received the record it loaded.
C1_Witness ==
    /\ reloads = 0
    /\ Len(cycles) = 1
    /\ cycles[1].state = "fulfilled"
    /\ Len(calls) >= 2
    /\ \A i \in DOMAIN calls :
          calls[i].promise = 1 /\ calls[i].rec = config /\ config # Null

\* C2 (timeout). A call that waited on a poll cycle during which the slot was
\* never truthy, once settled, is rejected with ConfigLoadTimeout.
C2_TimeoutRejects ==
    \A i \in DOMAIN calls :
        (/\ calls[i].promise # 0
         /\ calls[i].status # "pending"
         /\ ~cycles[calls[i].promise].slotSeen)
        => (calls[i].status = "rejected" /\ calls[i].error \in ConfigLoadTimeout)

\* C3 (cache stability). A populated cache changes only by reload().
C3_CacheStable ==
    [][(config # Null /\ reloads' = reloads) => config' = config]_vars

\* C4 (stale timer). The check of a poll cycle abandoned by reload() changes
\* neither the cache nor the in-flight wait handle when it fires.
C4_StaleTimerNoOp ==
    [][\A p \in DOMAIN cycles :
          (cycles[p].abandoned /\ TimerFires(p)) =>
              (config' = config /\ loadingPromise' = loadingPromise)]_vars

\* The poll cycles that have a check scheduled.
ActiveLoops == {p \in DOMAIN cycles : cycles[p].timer # NoTimer}

\* C5 (single poll loop). At most one polling loop is active.
C5_SinglePollLoop == Cardinality(ActiveLoops) <= 1

\* No get/getAll has been issued since the last reload().
NoCallSinceReload ==
    reloads > 0 /\ \A i \in DOMAIN calls : calls[i].epoch < reloads

\* C6 (reload). reload() leaves no cache and no in-flight wait, and the first
\* get/getAll after it starts a new poll cycle, with a new start time.
C6_ReloadFresh ==
    [][/\ reloads' # reloads => (config' = Null /\ loadingPromise' = 0)
       /\ (NoCallSinceReload /\ Len(calls') = Len(calls) + 1) =>
             /\ Len(cycles') = Len(cycles) + 1
             /\ cycles'[Len(cycles')].startTime = now
             /\ loadingPromise' = Len(cycles')]_vars

\* C7 (ConfigLoader.get). After a successful load of cfg: a present,
\* non-empty value is returned; an absent or empty value fails with
\* MissingRequiredKey when required, and otherwise yields defaultValue
\* (undefined when none was given).
C7_GetResult ==
    \A i \in DOMAIN calls :
        (calls[i].op = "get" /\ calls[i].rec # Null) =>
            LET value == calls[i].rec[calls[i].key] IN
            IF value \notin {Undefined, ""}
            THEN calls[i].status = "fulfilled" /\ calls[i].value = value
            ELSE IF calls[i].required
            THEN /\ calls[i].status = "rejected"
                 /\ calls[i].error \in MissingRequiredKey
            ELSE /\ calls[i].status = "fulfilled"
                 /\ calls[i].value = calls[i].defaultValue

\* The synchronous call recorded in result could not resolve the slot.
Unresolvable == ~result.window \/ result.slot = Null

\* C8 (Config.getRequired). ConfigSourceUnavailable when there is no window
\* or the slot is falsy; else MissingRequiredKey when the value is absent or
\* empty; else the stored value.
C8_GetRequired ==
    result.op = "getRequired" =>
        IF Unresolvable
        THEN result.threw /\ result.error \in ConfigSourceUnavailable
        ELSE IF result.slot[result.key] \in {Undefined, ""}
        THEN result.threw /\ result.error \in MissingRequiredKey
        ELSE ~result.threw /\ result.str = result.slot[result.key]

\* C8 witness: getRequired returned the stored, non-empty value.
C8_Witness ==
    /\ result.op = "getRequired"
    /\ ~result.threw
    /\ result.str = "https://x"

\* C9 (Config.getOptional). It throws only ConfigSourceUnavailable, and only
\* when the slot cannot be resolved; otherwise it returns the value, or
\* undefined for an absent or empty value.
C9_GetOptional ==
    result.op = "getOptional" =>
        IF Unresolvable
        THEN result.threw /\ result.error \in ConfigSourceUnavailable
        ELSE /\ ~result.threw
             /\ result.str = IF result.slot[result.key] \in {Undefined, ""}
                             THEN Undefined
                             ELSE result.slot[result.key]

\* C9 witness: getOptional returned undefined for an empty value.
C9_Witness ==
    /\ result.op = "getOptional"
    /\ ~Unresolvable
    /\ result.slot[result.key] = ""
    /\ ~result.threw
    /\ result.str = Undefined

\* The defaultValue of the getBoolean call recorded in result.
ResultDefault == IF result.args = <<>> THEN FALSE ELSE result.args[1]

\* C10 as stated: with a resolvable slot getBoolean returns true if and only
\* if the value is exactly "true".
C10_TrueIffLiteral ==
    (result.op = "getBoolean" /\ ~Unresolvable) =>
        /\ ~result.threw
        /\ result.bool <=> (result.slot[result.key] = "true")

\* C10 amended: with a resolvable slot getBoolean returns true when the value
\* is exactly "true" and defaultValue (false when omitted) for every other
\* value.
C10_GetBoolean ==
    (result.op = "getBoolean" /\ ~Unresolvable) =>
        /\ ~result.threw
        /\ result.bool = IF result.slot[result.key] = "true" THEN TRUE
                         ELSE ResultDefault

\* C10 witness: a value other than "true" with defaultValue true gave true.
C10_Witness ==
    /\ result.op = "getBoolean"
    /\ ~Unresolvable
    /\ result.slot[result.key] = "false"
    /\ result.args = <<TRUE>>
    /\ result.bool

\* C11 (Config.isAvailable). isAvailable never throws and returns true
\* exactly when window exists and the slot is truthy; so in every environment
\* it is true exactly when getAll, and the slot lookup of getRequired and
\* getOptional, do not fail with ConfigSourceUnavailable.
C11_IsAvailable ==
    /\ result.op = "isAvailable" =>
          /\ ~result.threw
          /\ result.bool <=> (result.window /\ result.slot # Null)
    /\ ~isAvailable.threw
    /\ isAvailable.bool <=> ~getAll.threw
    /\ \A k \in Keys :
          /\ isAvailable.bool <=>
                getRequired(k).error \notin ConfigSourceUnavailable
          /\ isAvailable.bool <=>
                getOptional(k).error \notin ConfigSourceUnavailable

\* C11 witness: isAvailable returned true on a slot holding a record.
C11_Witness ==
    /\ result.op = "isAvailable"
    /\ result.window
    /\ result.slot # Null
    /\ result.bool
    /\ ~result.threw

\* What a call of op(key, args) yields on an environment with the given
\* window and slot, as the accessor's contract states it: "throws", or the
\* value returned.
Contract(op, key, args, window, s) ==
    LET dflt == IF args = <<>> THEN FALSE ELSE args[1]
        absent == s[key] \in {Undefined, ""}
    IN CASE op = "isAvailable" -> ReturnBool(window /\ s # Null)
         [] ~window -> Throw(ErrNonBrowser)
         [] s = Null -> Throw(ErrNotDefined)
         [] op = "getAll" -> ReturnRec(s)
         [] op = "getRequired" ->
               IF absent THEN Throw(ErrRequiredMissingOrEmpty)
               ELSE ReturnStr(s[key])
         [] op = "getOptional" ->
               ReturnStr(IF absent THEN Undefined ELSE s[key])
         [] op = "getBoolean" ->
               ReturnBool(IF s[key] = "true" THEN TRUE ELSE dflt)

\* C13 (no cache in Config). The outcome of every call is the one the slot's
\* content at that call determines, whatever earlier calls observed.
C13_NoCache ==
    result.op # "none" =>
        LET c == Contract(result.op, result.key, result.args, result.window,
                          result.slot)
        IN /\ result.threw = c.threw
           /\ result.error = c.error
           /\ result.str = c.str
           /\ result.bool = c.bool
           /\ result.rec = c.rec

\* C13 witness: two getAll calls with the slot replaced in between; the
\* second returned the new record.
C13_Witness ==
    /\ result.op = "getAll"
    /\ result.prevOp = "getAll"
    /\ result.prevSlot # Null
    /\ result.slot # Null
    /\ result.prevSlot # result.slot
    /\ result.rec = result.slot

\* C12 (ConfigLoader.isLoaded). A call of isLoaded answers true exactly when
\* the cache is populated and changes neither the cache, the in-flight wait,
\* the poll cycles nor the pending calls.
C12_IsLoadedPure ==
    [][result' # result =>
          /\ result'.op = "isLoaded"
          /\ result'.bool <=> (config # Null)
          /\ UNCHANGED <<config, loadingPromise, cycles, calls>>]_vars

\* C12 witness: isLoaded was called on an instance that never loaded while
\* the slot holds a record: it answered false and no poll cycle exists.
C12_Witness ==
    /\ result.op = "isLoaded"
    /\ ~result.bool
    /\ slot # Null
    /\ config = Null
    /\ loadingPromise = 0
    /\ cycles = <<>>

\* Poll cycle p has rejected with ConfigLoadTimeout.
TimedOut(p) ==
    cycles[p].state = "rejected" /\ cycles[p].error \in ConfigLoadTimeout

\* C14 (timeout returns to Idle). A poll cycle that rejected with
\* ConfigLoadTimeout is no longer the in-flight wait of the instance, so no
\* later call receives its rejection.
C14_TimeoutIdle ==
    \A p \in DOMAIN cycles : TimedOut(p) => loadingPromise # p

\* C15 (Loaded excludes Waiting). Whenever the cache is populated the
\* in-flight wait handle is null.
C15_LoadedNotWaiting == config # Null => loadingPromise = 0

\* Poll cycle p runs a check in this step: it is created, or its timer fires.
Checks(p) ==
    \/ p \notin DOMAIN cycles
    \/ /\ cycles[p].timer # NoTimer
       /\ \/ cycles'[p].timer # cycles[p].timer
          \/ cycles'[p].state # cycles[p].state

\* C16 (precondition of a timeout). A poll cycle rejects with
\* ConfigLoadTimeout only at a check where the slot is falsy and at least
\* maxWaitMs have passed since its start; a check that finds the slot truthy
\* fulfils the cycle with it, whatever the time.
C16_TimeoutPrecondition ==
    [][\A p \in DOMAIN cycles' :
          Checks(p) =>
              /\ (cycles'[p].state = "rejected"
                     /\ cycles'[p].error \in ConfigLoadTimeout) =>
                    /\ slot = Null
                    /\ now - cycles'[p].startTime >= maxWaitMs
              /\ (hasWindow /\ slot # Null) =>
                    /\ cycles'[p].state = "fulfilled"
                    /\ cycles'[p].value = slot]_vars

\* C16 witness: a poll cycle found the slot at a check made after its
\* deadline and was fulfilled.
C16_Witness ==
    \E p \in DOMAIN cycles :
        /\ maxWaitMs > 0
        /\ cycles[p].state = "fulfilled"
        /\ cycles[p].settledAt - cycles[p].startTime >= maxWaitMs

\* C18 (source unavailability is not fatal). A load fails only with
\* ConfigLoadTimeout.
C18_OnlyTimeout ==
    \A p \in DOMAIN cycles :
        cycles[p].state = "rejected" => cycles[p].error \in ConfigLoadTimeout

\* Poll cycle p has settled, and so has every call that waited on it: with
\* the loaded record or with ConfigLoadTimeout.
Settled(p) ==
    /\ cycles[p].state = "fulfilled" \/ TimedOut(p)
    /\ \A i \in DOMAIN calls :
          calls[i].promise = p =>
              \/ calls[i].status = "fulfilled" /\ calls[i].rec = cycles[p].value
              \/ calls[i].status = "rejected"
                    /\ calls[i].error \in ConfigLoadTimeout

\* C17 (abandoned waiters are settled). A poll cycle abandoned by reload()
\* whose deadline lies within the clock's range eventually settles, and with
\* it every call that waited on it.
C17_AbandonedSettled ==
    \A p \in 1..MaxCalls :
        (/\ p \in DOMAIN cycles
         /\ cycles[p].abandoned
         /\ cycles[p].startTime + maxWaitMs <= MaxTime)
        ~> (p \in DOMAIN cycles /\ Settled(p))

\* C17 witness: a poll cycle abandoned by reload() rejected its waiter with
\* ConfigLoadTimeout.
C17_Witness ==
    \E p \in DOMAIN cycles :
        /\ cycles[p].abandoned
        /\ TimedOut(p)
        /\ \E i \in DOMAIN calls :
              /\ calls[i].promise = p
              /\ calls[i].status = "rejected"
              /\ calls[i].error \in ConfigLoadTimeout

\* Call i fails with MissingRequiredKey in this step.
FailsMissingKey(i) ==
    /\ i \notin DOMAIN calls \/ calls[i].status = "pending"
    /\ calls'[i].status = "rejected"
    /\ calls'[i].error \in MissingRequiredKey

\* C19 (MissingRequiredKey leaves the loader Loaded). When a get fails with
\* MissingRequiredKey the instance is Loaded with the record the call read
\* and holds no in-flight wait, so later calls are served from the cache.
C19_MissingKeyKeepsLoaded ==
    [][\A i \in DOMAIN calls' :
          FailsMissingKey(i) =>
              /\ config' # Null
              /\ config' = calls'[i].rec
              /\ loadingPromise' = 0]_vars

\* A required get whose load produced a record: it returned a value or
\* failed on the key, not on the wait.
RequiredGetAfterLoad(i) ==
    /\ calls[i].op = "get"
    /\ calls[i].required
    /\ \/ calls[i].status = "fulfilled"
       \/ calls[i].status = "rejected" /\ calls[i].error \notin ConfigLoadTimeout

\* C20 (the two components agree on required keys). With one record held in
\* the slot, ConfigLoader.get(key, {required: true}) after loading and
\* Config.getRequired(key) read the same record; one succeeds iff the other
\* does, with the same value, and both fail with MissingRequiredKey exactly
\* when the key's value is absent or the empty string.
C20_RequiredAgree ==
    \A i \in DOMAIN calls :
        (/\ RequiredGetAfterLoad(i)
         /\ result.op = "getRequired"
         /\ result.slot # Null
         /\ result.key = calls[i].key)
        => LET v == result.slot[result.key] IN
           /\ calls[i].rec = result.slot
           /\ (calls[i].status = "fulfilled") <=> ~result.threw
           /\ ~result.threw => calls[i].value = result.str /\ result.str = v
           /\ result.threw =>
                 /\ result.error \in MissingRequiredKey
                 /\ calls[i].error \in MissingRequiredKey
           /\ result.threw <=> v \in {Undefined, ""}

C20_Witness ==
    /\ result.op = "getRequired"
    /\ result.slot # Null
    /\ \E i, j \in DOMAIN calls :
          /\ RequiredGetAfterLoad(i) /\ RequiredGetAfterLoad(j)
          /\ calls[i].promise = 1 /\ calls[j].promise = 0
          /\ cycles[1].settledAt > cycles[1].startTime
          /\ calls[i].key = result.key
          /\ \/ ~result.threw /\ calls[i].value = "https://x"
             \/ result.threw /\ result.slot[result.key] = ""

====
